---- MODULE Spec2Model ----
(***************************************************************************)
(* OdinVault backend: the file lifecycle service (FileService), the share  *)
(* service (ShareService) and the object-store client they drive.          *)
(*                                                                         *)
(* Strings that the code takes apart (names, mime types, storage keys,     *)
(* search queries, tags) are sequences of one-character strings, so that   *)
(* trim / replace / startsWith / contains / template concatenation are     *)
(* computed as the code computes them.  The empty sequence stands for      *)
(* null / undefined / '' wherever the code itself folds them together      *)
(* with `x || null` or `x || undefined`.                                   *)
(***************************************************************************)
EXTENDS Integers, Sequences, FiniteSets, TLC

VARIABLES
    files,      \* File table: set of rows
    shares,     \* Share table: set of rows
    store,      \* object store bucket: set of objects [key, body, contentType]
    now,        \* wall clock, milliseconds
    nextFile,   \* number of uuids drawn so far for File rows
    nextShare,  \* number of uuids drawn so far for Share rows / tokens
    revoked,    \* history: ids of shares on which deactivateShare succeeded
    defaulted,  \* history: ids of shares created without a caller expiresAt
    calls,      \* service calls in flight, by slot: position and local values
    last        \* the request handled by the last step and its response

vars == <<files, shares, store, now, nextFile, nextShare, revoked, defaulted,
          calls, last>>

----------------------------------------------------------------------------
(* Bounds of the model *)

MaxFiles == 2       \* File rows ever created
MaxShares == 2      \* Share rows ever created
MaxSharedFiles == 1 \* File rows ever created while shares are exercised
MaxRoutedFiles == 1 \* File rows ever created through the upload route
MaxInFlight == 2    \* service calls in flight at the same time
MaxMs == 1          \* one-millisecond clock steps taken within a day
MaxDays == 7        \* one-day clock steps taken
TRASH_PURGE_DAYS == 20  \* process.env.TRASH_PURGE_DAYS of the cleanup runs
                        \* (unset it is 30; 30 days of milliseconds do not
                        \* fit the 32-bit integers of the model checker)

(* Program constants *)

DEFAULT_SHARE_EXPIRY_DAYS == 7
MsPerDay == 24 * 60 * 60 * 1000
DEFAULT_PAGE == 1
DEFAULT_LIMIT == 20

NullStr == <<>>
NullTime == -1

----------------------------------------------------------------------------
(* String helpers (JavaScript String methods on character sequences) *)

Digits == {"0", "1", "2", "3", "4", "5", "6", "7", "8", "9"}
LowerSeq == <<"a","b","c","d","e","f","g","h","i","j","k","l","m",
              "n","o","p","q","r","s","t","u","v","w","x","y","z">>
UpperSeq == <<"A","B","C","D","E","F","G","H","I","J","K","L","M",
              "N","O","P","Q","R","S","T","U","V","W","X","Y","Z">>
Range(s) == {s[i] : i \in DOMAIN s}
AlnumChars == Digits \cup Range(LowerSeq) \cup Range(UpperSeq)
SpaceChars == {" ", "\t", "\n"}

ToLowerChar(c) ==
    IF c \in Range(UpperSeq)
    THEN LowerSeq[CHOOSE i \in DOMAIN UpperSeq : UpperSeq[i] = c]
    ELSE c

ToLower(s) == [i \in DOMAIN s |-> ToLowerChar(s[i])]

StartsWith(s, p) ==
    /\ Len(p) <= Len(s)
    /\ SubSeq(s, 1, Len(p)) = p

Contains(s, p) ==
    \E i \in 0..(Len(s) - Len(p)) : SubSeq(s, i + 1, i + Len(p)) = p

\* String.prototype.trim
RECURSIVE TrimLeft(_)
TrimLeft(s) ==
    IF s # <<>> /\ Head(s) \in SpaceChars THEN TrimLeft(Tail(s)) ELSE s

RECURSIVE TrimRight(_)
TrimRight(s) ==
    IF s # <<>> /\ s[Len(s)] \in SpaceChars
    THEN TrimRight(SubSeq(s, 1, Len(s) - 1))
    ELSE s

Trim(s) == TrimRight(TrimLeft(s))

\* s.replace(/\s+/g, ' ')
RECURSIVE CollapseSpaces(_)
CollapseSpaces(s) ==
    IF s = <<>> THEN <<>>
    ELSE IF Head(s) \in SpaceChars
         THEN <<" ">> \o CollapseSpaces(TrimLeft(s))
         ELSE <<Head(s)>> \o CollapseSpaces(Tail(s))

\* s.replace(/[\\/]/g, '-')
ReplaceSeparators(s) ==
    [i \in DOMAIN s |-> IF s[i] \in {"/", "\\"} THEN "-" ELSE s[i]]

\* /\.[A-Za-z0-9]{1,10}$/.test(s)
HasExtension(s) ==
    \E n \in 1..10 :
        /\ Len(s) >= n + 1
        /\ s[Len(s) - n] = "."
        /\ \A i \in (Len(s) - n + 1)..Len(s) : s[i] \in AlnumChars

----------------------------------------------------------------------------
(* Fixture: users, mime types, upload payloads *)

U1 == <<"u", "1">>
U2 == <<"u", "2">>
Users == {U1, U2}

TextPlain == <<"t","e","x","t","/","p","l","a","i","n">>
ImagePng == <<"i","m","a","g","e","/","p","n","g">>
ImageJpeg == <<"i","m","a","g","e","/","j","p","e","g">>
VideoMp4 == <<"v","i","d","e","o","/","m","p","4">>

HIDDEN_TRASH == <<"_","_","h","i","d","d","e","n","_","t","r","a","s","h">>
PREVIEW_SUFFIX == <<"_","p","r","e","v","i","e","w",".","j","p","g">>

\* mime.extension(type) || ''   (mime-db's first extension of the type)
MimeExtension(mimetype) ==
    CASE mimetype = TextPlain -> <<"t","x","t">>
      [] mimetype = ImagePng -> <<"p","n","g">>
      [] mimetype = ImageJpeg -> <<"j","p","e","g">>
      [] mimetype = VideoMp4 -> <<"m","p","4">>
      [] OTHER -> <<>>

\* the text of a uuid: distinct draws give distinct texts
UuidText(n) == <<"#", LowerSeq[n]>>

----------------------------------------------------------------------------
(* StorageService: the bucket is a set of objects, at most one per key *)

StorageKeys(st) == {o.key : o \in st}

\* s3.upload(params): put, replacing any object at the key
StorageUploadFile(st, body, key, contentType) ==
    {o \in st : o.key # key} \cup
        {[key |-> key, body |-> body, contentType |-> contentType]}

\* s3.deleteObject(params): idempotent
StorageDeleteFile(st, key) == {o \in st : o.key # key}

\* StorageService.fileExists: headObject; a 'NotFound' error is FALSE, any
\* other error of the call is rethrown ("throw")
fileExists(st, key, headError) ==
    IF headError THEN "throw"
    ELSE IF key \in StorageKeys(st) THEN "true" ELSE "false"

----------------------------------------------------------------------------
(* PreviewService *)

\* generatePreview: a buffer for image/* payloads that sharp can decode,
\* null for other types and on any processing failure
generatePreview(buffer, mimeType, sharpFails) ==
    IF StartsWith(mimeType, <<"i","m","a","g","e","/">>)
    THEN IF sharpFails THEN <<>> ELSE <<"preview-of">> \o buffer
    ELSE <<>>

previewKeyOf(originalFileKey) == originalFileKey \o PREVIEW_SUFFIX

----------------------------------------------------------------------------
(* FileService *)

mapFileToResponse(file) ==
    [id |-> file.id,
     name |-> file.name,
     originalName |-> file.originalName,
     size |-> file.size,
     mimeType |-> file.mimeType,
     storageKey |-> file.storageKey,
     previewKey |-> file.previewKey,
     tags |-> file.tags,
     folder |-> file.folder,
     createdAt |-> file.createdAt]

\* mutant: the video test looks for 'video' without the slash and after the
\* fallback, so videos are filed under 'files'
category_VideoAsFiles(mimetype) ==
    IF StartsWith(mimetype, <<"i","m","a","g","e","/">>) THEN <<"i","m","a","g","e">>
    ELSE <<"f","i","l","e","s">>

category(mimetype) ==
    IF StartsWith(mimetype, <<"i","m","a","g","e","/">>) THEN <<"i","m","a","g","e">>
    ELSE IF StartsWith(mimetype, <<"v","i","d","e","o","/">>) THEN <<"v","i","d","e","o">>
    ELSE <<"f","i","l","e","s">>

\* lines 60-70: the name the object is stored under
finalName(data, fileId) ==
    LET extension == MimeExtension(data.mimetype)
        providedName ==
            Trim(IF data.name # <<>> THEN data.name ELSE data.originalname)
        sanitizedBase ==
            IF providedName # <<>>
            THEN ReplaceSeparators(CollapseSpaces(providedName))
            ELSE IF data.originalname # <<>> THEN data.originalname
                 ELSE <<"f","i","l","e","-">> \o UuidText(fileId)
    IN  IF HasExtension(sanitizedBase) THEN sanitizedBase
        ELSE IF extension # <<>> THEN sanitizedBase \o <<".">> \o extension
             ELSE sanitizedBase

storageKeyOf(userId, data, fileId) ==
    userId \o <<"/">> \o category(data.mimetype) \o <<"/">> \o finalName(data, fileId)

Err(code, msg) == [status |-> code, message |-> msg]

\* the statusCode of an Error that has none (a plain `new Error(...)`)
NoStatusCode == 0

\* errorHandler: the error envelope sent to the client; statusCode
\* defaults to 500 and the message of a 500 is replaced when NODE_ENV is
\* 'production'
errorHandler(error, nodeEnv) ==
    LET statusCode == IF error.status = NoStatusCode THEN 500 ELSE error.status
    IN  IF nodeEnv = "production" /\ statusCode = 500
        THEN Err(500, "Internal server error")
        ELSE Err(statusCode, error.message)

\* mutant: the File row is created before the primary object is written
uploadFile_RowBeforeWrite(fs, st, data, fileId, t, env) ==
    LET storageKey == storageKeyOf(data.userId, data, fileId)
        exists == fileExists(st, storageKey, env.headError) = "true"
        st1 == StorageUploadFile(st, data.buffer, storageKey, data.mimetype)
        previewBuffer == generatePreview(data.buffer, data.mimetype, env.sharpFails)
        previewKey == IF previewBuffer # <<>> THEN previewKeyOf(storageKey) ELSE <<>>
        st2 == IF previewBuffer # <<>>
               THEN StorageUploadFile(st1, previewBuffer, previewKey, <<"image/jpeg">>)
               ELSE st1
        file == [id |-> fileId,
                 name |-> finalName(data, fileId),
                 originalName |-> data.originalname,
                 size |-> data.size,
                 mimeType |-> data.mimetype,
                 storageKey |-> storageKey,
                 previewKey |-> previewKey,
                 tags |-> data.tags,
                 folder |-> data.folder,
                 ownerId |-> data.userId,
                 isDeleted |-> FALSE,
                 deletedAt |-> NullTime,
                 createdAt |-> t]
    IN  IF exists
        THEN [res |-> Err(409, "A file with this name already exists"),
              files |-> fs, store |-> st]
        ELSE IF env.putFails
        THEN [res |-> Err(500, "Failed to upload file to storage"),
              files |-> fs \cup {file}, store |-> st]
        ELSE IF previewBuffer # <<>> /\ env.previewPutFails
        THEN [res |-> Err(500, "Failed to upload preview"),
              files |-> fs, store |-> st1]
        ELSE IF env.dbFails
        THEN [res |-> Err(500, "database error"),
              files |-> fs, store |-> st2]
        ELSE [res |-> [status |-> 201, file |-> mapFileToResponse(file)],
              files |-> fs \cup {file}, store |-> st2]

\* FileService.uploadFile.  env says which calls to the object store, to
\* sharp and to the database fail during this request.
uploadFile(fs, st, data, fileId, t, env) ==
    LET storageKey == storageKeyOf(data.userId, data, fileId)
        exists == fileExists(st, storageKey, env.headError) = "true"
        st1 == StorageUploadFile(st, data.buffer, storageKey, data.mimetype)
        previewBuffer == generatePreview(data.buffer, data.mimetype, env.sharpFails)
        previewKey == IF previewBuffer # <<>> THEN previewKeyOf(storageKey) ELSE <<>>
        st2 == IF previewBuffer # <<>>
               THEN StorageUploadFile(st1, previewBuffer, previewKey, <<"image/jpeg">>)
               ELSE st1
        file == [id |-> fileId,
                 name |-> finalName(data, fileId),
                 originalName |-> data.originalname,
                 size |-> data.size,
                 mimeType |-> data.mimetype,
                 storageKey |-> storageKey,
                 previewKey |-> previewKey,
                 tags |-> data.tags,
                 folder |-> data.folder,
                 ownerId |-> data.userId,
                 isDeleted |-> FALSE,
                 deletedAt |-> NullTime,
                 createdAt |-> t]
    IN  IF exists
        THEN [res |-> Err(409, "A file with this name already exists"),
              files |-> fs, store |-> st]
        ELSE IF env.putFails
        THEN [res |-> Err(500, "Failed to upload file to storage"),
              files |-> fs, store |-> st]
        ELSE IF previewBuffer # <<>> /\ env.previewPutFails
        THEN [res |-> Err(500, "Failed to upload preview"),
              files |-> fs, store |-> st1]
        ELSE IF env.dbFails
        THEN [res |-> Err(500, "database error"),
              files |-> fs, store |-> st2]
        ELSE [res |-> [status |-> 201, file |-> mapFileToResponse(file)],
              files |-> fs \cup {file}, store |-> st2]

\* mutant: the lookup is by id alone, the ownerId condition is missing
getFileById_AnyOwner(fs, fileId, userId, includeDeleted) ==
    LET found == {f \in fs : /\ f.id = fileId
                             /\ (includeDeleted \/ ~f.isDeleted)}
    IN  IF found = {} THEN Err(404, "File not found")
        ELSE [status |-> 200, file |-> mapFileToResponse(CHOOSE f \in found : TRUE)]

getFileById(fs, fileId, userId, includeDeleted) ==
    LET found == {f \in fs : /\ f.id = fileId
                             /\ f.ownerId = userId
                             /\ (includeDeleted \/ ~f.isDeleted)}
    IN  IF found = {} THEN Err(404, "File not found")
        ELSE [status |-> 200, file |-> mapFileToResponse(CHOOSE f \in found : TRUE)]

\* StorageService.getSignedDownloadUrl: a presigned GET url for the key
getSignedDownloadUrl(key) ==
    [url |-> <<"https://bucket/">> \o key \o <<"?X-Amz-Signature">>]

getDownloadUrl(fs, fileId, userId, includeDeleted) ==
    LET r == getFileById(fs, fileId, userId, includeDeleted)
    IN  IF r.status # 200 THEN r
        ELSE [status |-> 200,
              downloadUrl |-> getSignedDownloadUrl(r.file.storageKey).url,
              expiresIn |-> 3600]

getPreviewUrl(fs, fileId, userId, includeDeleted) ==
    LET r == getFileById(fs, fileId, userId, includeDeleted)
    IN  IF r.status # 200 THEN r
        ELSE IF r.file.previewKey = NullStr
        THEN [status |-> 200, previewUrl |-> NullStr, hasPreview |-> FALSE]
        ELSE [status |-> 200,
              previewUrl |-> getSignedDownloadUrl(r.file.previewKey).url,
              hasPreview |-> TRUE]

\* orderBy createdAt desc; rows created in the same millisecond are
\* ordered by id, the later draw first
RECURSIVE NewestFirst(_)
NewestFirst(rows) ==
    IF rows = {} THEN <<>>
    ELSE LET top == CHOOSE r \in rows :
                        \A q \in rows :
                            \/ r.createdAt > q.createdAt
                            \/ r.createdAt = q.createdAt /\ r.id >= q.id
         IN  <<top>> \o NewestFirst(rows \ {top})

MapSeq(s, Op(_)) == [i \in DOMAIN s |-> Op(s[i])]

listFiles(fs, userId, includeDeleted) ==
    LET matching ==
            {f \in fs :
                /\ f.ownerId = userId
                /\ f.isDeleted = includeDeleted
                /\ (includeDeleted =>
                        (f.folder = NullStr \/ f.folder # HIDDEN_TRASH))}
    IN  MapSeq(NewestFirst(matching), mapFileToResponse)

\* mutant: the isDeleted filter is missing
hideDeletedFiles_AnyState(fs, userId, fileIds) ==
    LET hit == {f \in fs : f.ownerId = userId /\ f.id \in fileIds}
    IN  [count |-> Cardinality(hit),
         files |-> (fs \ hit) \cup {[f EXCEPT !.folder = HIDDEN_TRASH] : f \in hit}]

hideDeletedFiles(fs, userId, fileIds) ==
    LET hit == {f \in fs : f.ownerId = userId /\ f.id \in fileIds /\ f.isDeleted}
    IN  [count |-> Cardinality(hit),
         files |-> (fs \ hit) \cup {[f EXCEPT !.folder = HIDDEN_TRASH] : f \in hit}]

\* mutant: the update sets the flag and leaves deletedAt alone
deleteFile_NoTimestamp(fs, fileId, userId, t) ==
    LET found == {f \in fs : f.id = fileId /\ f.ownerId = userId /\ ~f.isDeleted}
    IN  IF found = {} THEN [res |-> Err(404, "File not found"), files |-> fs]
        ELSE [res |-> [status |-> 200],
              files |-> {IF f.id = fileId
                         THEN [f EXCEPT !.isDeleted = TRUE]
                         ELSE f : f \in fs}]

deleteFile(fs, fileId, userId, t) ==
    LET found == {f \in fs : f.id = fileId /\ f.ownerId = userId /\ ~f.isDeleted}
    IN  IF found = {} THEN [res |-> Err(404, "File not found"), files |-> fs]
        ELSE [res |-> [status |-> 200],
              files |-> {IF f.id = fileId
                         THEN [f EXCEPT !.isDeleted = TRUE, !.deletedAt = t]
                         ELSE f : f \in fs}]

\* mutant: the update clears the flag but keeps deletedAt
restoreFile_KeepsDeletedAt(fs, fileId, userId) ==
    LET found == {f \in fs : f.id = fileId /\ f.ownerId = userId /\ f.isDeleted}
    IN  IF found = {} THEN [res |-> Err(404, "File not found in trash"), files |-> fs]
        ELSE [res |-> [status |-> 200],
              files |-> {IF f.id = fileId THEN [f EXCEPT !.isDeleted = FALSE] ELSE f :
                            f \in fs}]

restoreFile(fs, fileId, userId) ==
    LET found == {f \in fs : f.id = fileId /\ f.ownerId = userId /\ f.isDeleted}
    IN  IF found = {} THEN [res |-> Err(404, "File not found in trash"), files |-> fs]
        ELSE [res |-> [status |-> 200],
              files |-> {IF f.id = fileId
                         THEN [f EXCEPT !.isDeleted = FALSE, !.deletedAt = NullTime]
                         ELSE f : f \in fs}]

\* Share rows left after File rows are removed.  The relation between
\* Share.fileId and File is declared in the database schema; both a
\* cascading delete and a share left pointing at a missing file are allowed.
ShareRowsAfterFileDelete(sh, removedIds, cascade) ==
    IF cascade THEN {s \in sh : s.fileId \notin removedIds} ELSE sh

\* mutant: the isDeleted filter is missing from both queries
permanentlyDeleteFiles_AnyState(fs, st, userId, fileIds, failKeys) ==
    LET targets == {f \in fs : f.ownerId = userId /\ f.id \in fileIds}
        keys == {f.storageKey : f \in targets} \cup
                {f.previewKey : f \in {g \in targets : g.previewKey # NullStr}}
    IN  IF fileIds = {}
        THEN [res |-> Err(400, "fileIds array is required"),
              files |-> fs, store |-> st, removedIds |-> {}]
        ELSE [res |-> [status |-> 200, count |-> Cardinality(targets)],
              files |-> fs \ targets,
              store |-> {o \in st : o.key \notin (keys \ failKeys)},
              removedIds |-> {f.id : f \in targets}]

\* FileService.permanentlyDeleteFiles.  failKeys: the keys whose
\* deleteObject call fails during this request (the error is swallowed).
\* mutant: the ownerId condition is missing from both queries
permanentlyDeleteFiles_AnyOwner(fs, st, userId, fileIds, failKeys) ==
    LET targets == {f \in fs : f.id \in fileIds /\ f.isDeleted}
        keys == {f.storageKey : f \in targets} \cup
                {f.previewKey : f \in {g \in targets : g.previewKey # NullStr}}
        removed == {f \in fs : /\ f.id \in {g.id : g \in targets}
                               /\ f.isDeleted}
    IN  IF fileIds = {}
        THEN [res |-> Err(400, "fileIds array is required"),
              files |-> fs, store |-> st, removedIds |-> {}]
        ELSE [res |-> [status |-> 200, count |-> Cardinality(removed)],
              files |-> fs \ removed,
              store |-> {o \in st : o.key \notin (keys \ failKeys)},
              removedIds |-> {f.id : f \in removed}]

permanentlyDeleteFiles(fs, st, userId, fileIds, failKeys) ==
    LET targets == {f \in fs : f.ownerId = userId /\ f.id \in fileIds /\ f.isDeleted}
        keys == {f.storageKey : f \in targets} \cup
                {f.previewKey : f \in {g \in targets : g.previewKey # NullStr}}
        removed == {f \in fs : /\ f.ownerId = userId
                               /\ f.id \in {g.id : g \in targets}
                               /\ f.isDeleted}
    IN  IF fileIds = {}
        THEN [res |-> Err(400, "fileIds array is required"),
              files |-> fs, store |-> st, removedIds |-> {}]
        ELSE [res |-> [status |-> 200, count |-> Cardinality(removed)],
              files |-> fs \ removed,
              store |-> {o \in st : o.key \notin (keys \ failKeys)},
              removedIds |-> {f.id : f \in removed}]

SeqToSet(s) == {s[i] : i \in DOMAIN s}

\* mutant: the tags filter replaces the query condition instead of joining it
searchWhere_TagsReplaceQuery(f, params) ==
    /\ f.ownerId = params.userId
    /\ ~f.isDeleted
    /\ ((params.query # <<>> /\ params.tags = <<>>) =>
            \/ Contains(ToLower(f.originalName), ToLower(params.query))
            \/ params.query \in SeqToSet(f.tags))
    /\ (params.type # <<>> => StartsWith(f.mimeType, params.type))
    /\ (params.tags # <<>> => SeqToSet(f.tags) \cap SeqToSet(params.tags) # {})
    /\ (params.folder # <<>> => f.folder = params.folder)

\* the Prisma `where` of searchFiles, lines 229-251
searchWhere(f, params) ==
    /\ f.ownerId = params.userId
    /\ ~f.isDeleted
    /\ (params.query # <<>> =>
            \/ Contains(ToLower(f.originalName), ToLower(params.query))
            \/ params.query \in SeqToSet(f.tags))
    /\ (params.type # <<>> => StartsWith(f.mimeType, params.type))
    /\ (params.tags # <<>> => SeqToSet(f.tags) \cap SeqToSet(params.tags) # {})
    /\ (params.folder # <<>> => f.folder = params.folder)

CeilDiv(a, b) == (a + b - 1) \div b

searchFiles(fs, params) ==
    LET page == IF params.page # 0 THEN params.page ELSE DEFAULT_PAGE
        limit == IF params.limit # 0 THEN params.limit ELSE DEFAULT_LIMIT
        skip == (page - 1) * limit
        matching == NewestFirst({f \in fs : searchWhere(f, params)})
        total == Len(matching)
        upto == IF skip + limit < total THEN skip + limit ELSE total
    IN  [status |-> 200,
         files |-> MapSeq(SubSeq(matching, skip + 1, upto), mapFileToResponse),
         total |-> total,
         page |-> page,
         limit |-> limit,
         totalPages |-> CeilDiv(total, limit)]

----------------------------------------------------------------------------
(* ShareService *)

Token(n) == <<"token", n>>
ExpiryMs == DEFAULT_SHARE_EXPIRY_DAYS * MsPerDay

mapShareToResponse(share, fs) ==
    [id |-> share.id,
     token |-> share.token,
     expiresAt |-> share.expiresAt,
     isActive |-> share.isActive,
     createdAt |-> share.createdAt,
     file |-> {[id |-> f.id, originalName |-> f.originalName,
                size |-> f.size, mimeType |-> f.mimeType] :
                    f \in {g \in fs : g.id = share.fileId}}]

\* mutant: the default lifetime is computed in seconds, not milliseconds
createShare_Seconds(fs, sh, data, shareId, t) ==
    LET found == {f \in fs : /\ f.id = data.fileId
                             /\ f.ownerId = data.userId
                             /\ ~f.isDeleted}
        expiresAt == IF data.expiresAt # NullTime THEN data.expiresAt
                     ELSE t + DEFAULT_SHARE_EXPIRY_DAYS * 24 * 60 * 60
        share == [id |-> shareId,
                  token |-> Token(shareId),
                  expiresAt |-> expiresAt,
                  isActive |-> TRUE,
                  fileId |-> data.fileId,
                  createdById |-> data.userId,
                  createdAt |-> t]
    IN  IF found = {} THEN [res |-> Err(404, "File not found"), shares |-> sh]
        ELSE [res |-> [status |-> 201, share |-> mapShareToResponse(share, fs)],
              shares |-> sh \cup {share}]

\* mutant: the file lookup does not exclude soft-deleted rows
createShare_IgnoresDeleted(fs, sh, data, shareId, t) ==
    LET found == {f \in fs : /\ f.id = data.fileId
                             /\ f.ownerId = data.userId}
        expiresAt == IF data.expiresAt # NullTime THEN data.expiresAt
                     ELSE t + ExpiryMs
        share == [id |-> shareId,
                  token |-> Token(shareId),
                  expiresAt |-> expiresAt,
                  isActive |-> TRUE,
                  fileId |-> data.fileId,
                  createdById |-> data.userId,
                  createdAt |-> t]
    IN  IF found = {} THEN [res |-> Err(404, "File not found"), shares |-> sh]
        ELSE [res |-> [status |-> 201, share |-> mapShareToResponse(share, fs)],
              shares |-> sh \cup {share}]

\* ShareService.createShare; data.expiresAt = NullTime when the caller
\* supplies none
createShare(fs, sh, data, shareId, t) ==
    LET found == {f \in fs : /\ f.id = data.fileId
                             /\ f.ownerId = data.userId
                             /\ ~f.isDeleted}
        expiresAt == IF data.expiresAt # NullTime THEN data.expiresAt
                     ELSE t + ExpiryMs
        share == [id |-> shareId,
                  token |-> Token(shareId),
                  expiresAt |-> expiresAt,
                  isActive |-> TRUE,
                  fileId |-> data.fileId,
                  createdById |-> data.userId,
                  createdAt |-> t]
    IN  IF found = {} THEN [res |-> Err(404, "File not found"), shares |-> sh]
        ELSE [res |-> [status |-> 201, share |-> mapShareToResponse(share, fs)],
              shares |-> sh \cup {share}]

\* findFirst: one of the matching rows, or none
FindFirst(rows) == IF rows = {} THEN {} ELSE {CHOOSE r \in rows : TRUE}

\* mutant: a share is still served at the instant it expires
getFileByToken_AtExpiry(fs, sh, token, t) ==
    LET share == {s \in sh : s.token = token /\ s.isActive /\ s.expiresAt >= t}
        file == {f \in fs : f.id \in {s.fileId : s \in share} /\ ~f.isDeleted}
    IN  IF share = {} THEN Err(404, "Share link not found or expired")
        ELSE IF file = {} THEN Err(404, "File not found or has been deleted")
        ELSE [status |-> 200,
              file |-> CHOOSE f \in file : TRUE,
              share |-> CHOOSE x \in share : TRUE]

\* mutant: the isActive filter is missing from the share lookup
getFileByToken_IgnoresActive(fs, sh, token, t) ==
    LET share == {s \in sh : s.token = token /\ s.expiresAt > t}
        file == {f \in fs : f.id \in {s.fileId : s \in share} /\ ~f.isDeleted}
    IN  IF share = {} THEN Err(404, "Share link not found or expired")
        ELSE IF file = {} THEN Err(404, "File not found or has been deleted")
        ELSE [status |-> 200,
              file |-> CHOOSE f \in file : TRUE,
              share |-> CHOOSE x \in share : TRUE]

getFileByToken(fs, sh, token, t) ==
    LET share == FindFirst({s \in sh : s.token = token /\ s.isActive /\ s.expiresAt > t})
        file == FindFirst({f \in fs : f.id \in {s.fileId : s \in share} /\ ~f.isDeleted})
    IN  IF share = {} THEN Err(404, "Share link not found or expired")
        ELSE IF file = {} THEN Err(404, "File not found or has been deleted")
        ELSE [status |-> 200,
              file |-> CHOOSE f \in file : TRUE,
              share |-> CHOOSE x \in share : TRUE]

\* mutant: the share is looked up by id alone, createdById is not compared
deactivateShare_AnyUser(sh, shareId, userId) ==
    LET found == {s \in sh : s.id = shareId}
    IN  IF found = {} THEN [res |-> Err(404, "Share not found"), shares |-> sh]
        ELSE [res |-> [status |-> 200],
              shares |-> {IF s.id = shareId THEN [s EXCEPT !.isActive = FALSE]
                          ELSE s : s \in sh}]

\* mutant: the update toggles isActive instead of clearing it
deactivateShare_Toggle(sh, shareId, userId) ==
    LET found == {s \in sh : s.id = shareId /\ s.createdById = userId}
    IN  IF found = {} THEN [res |-> Err(404, "Share not found"), shares |-> sh]
        ELSE [res |-> [status |-> 200],
              shares |-> {IF s.id = shareId THEN [s EXCEPT !.isActive = ~s.isActive]
                          ELSE s : s \in sh}]

deactivateShare(sh, shareId, userId) ==
    LET found == {s \in sh : s.id = shareId /\ s.createdById = userId}
    IN  IF found = {} THEN [res |-> Err(404, "Share not found"), shares |-> sh]
        ELSE [res |-> [status |-> 200],
              shares |-> {IF s.id = shareId THEN [s EXCEPT !.isActive = FALSE]
                          ELSE s : s \in sh}]

\* mutant: the sweep removes the expired rows instead of flagging them
cleanupExpiredShares_DeletesRows(sh, t) ==
    LET hit == {s \in sh : s.expiresAt < t /\ s.isActive}
    IN  [count |-> Cardinality(hit),
         shares |-> sh \ hit]

\* mutant: the isActive condition is missing from the where clause
cleanupExpiredShares_NoActiveFilter(sh, t) ==
    LET hit == {s \in sh : s.expiresAt < t}
    IN  [count |-> Cardinality(hit),
         shares |-> (sh \ hit) \cup {[s EXCEPT !.isActive = FALSE] : s \in hit}]

cleanupExpiredShares(sh, t) ==
    LET hit == {s \in sh : s.expiresAt < t /\ s.isActive}
    IN  [count |-> Cardinality(hit),
         shares |-> (sh \ hit) \cup {[s EXCEPT !.isActive = FALSE] : s \in hit}]

----------------------------------------------------------------------------
(* The cleanup script *)

\* cleanup(): sweeps the expired shares, then lists the File rows that were
\* soft-deleted more than TRASH_PURGE_DAYS days ago and logs them.
\* purgeDate.setDate(getDate() - n) is taken as n days of 24 hours.
cleanup(fs, sh, t) ==
    LET swept == cleanupExpiredShares(sh, t)
        purgeDate == t - TRASH_PURGE_DAYS * MsPerDay
        deletedFiles == {f \in fs : f.isDeleted /\ f.deletedAt < purgeDate}
    IN  [expiredSharesCount |-> swept.count,
         shares |-> swept.shares,
         files |-> fs,
         logged |-> {f.originalName : f \in deletedFiles}]

----------------------------------------------------------------------------
(* Request payloads the model draws from *)

TagWork == <<"w","o","r","k">>
TagImportant == <<"i","m","p">>
FolderDocs == <<"d","o","c","s">>

\* a text note uploaded under its own name
ReqNote(u) ==
    [userId |-> u, originalname |-> <<"a",".","t","x","t">>, name |-> <<>>,
     mimetype |-> TextPlain, size |-> 1, buffer |-> <<"b1">>,
     folder |-> <<>>, tags |-> <<>>]

\* an image, filed and tagged
ReqCat(u) ==
    [userId |-> u, originalname |-> <<"c",".","p","n","g">>, name |-> <<>>,
     mimetype |-> ImagePng, size |-> 2, buffer |-> <<"b2">>,
     folder |-> FolderDocs, tags |-> <<TagWork>>]

\* a picture whose own file name ends in the suffix of preview keys
ReqThumb(u) ==
    [userId |-> u,
     originalname |-> <<"c",".","p","n","g">> \o PREVIEW_SUFFIX, name |-> <<>>,
     mimetype |-> ImageJpeg, size |-> 4, buffer |-> <<"b4">>,
     folder |-> <<>>, tags |-> <<>>]

\* a video with a display name that needs trimming, collapsing, separator
\* replacement and an extension
ReqClip(u) ==
    [userId |-> u, originalname |-> <<"v">>, name |-> <<" ","m"," "," ","/","n"," ">>,
     mimetype |-> VideoMp4, size |-> 3, buffer |-> <<"b3">>,
     folder |-> <<>>, tags |-> <<TagWork, TagImportant>>]

FileRequests == {ReqNote(U1), ReqCat(U2), ReqClip(U1)}

OkEnv == [headError |-> FALSE, putFails |-> FALSE, sharpFails |-> FALSE,
          previewPutFails |-> FALSE, dbFails |-> FALSE]

FileIds == 1..MaxFiles
ShareIds == 1..MaxShares
Tokens == {Token(n) : n \in ShareIds}
ExpiryInputs == {NullTime, MsPerDay}

----------------------------------------------------------------------------
(* The upload route: multipart fields, request validation, JSON.parse *)

\* a field of req.body as multer leaves it: absent, one text value, or the
\* array of the values of a field name that was sent more than once
AbsentField == [kind |-> "absent"]
TextField(text) == [kind |-> "string", text |-> text]
ArrayField(items) == [kind |-> "array", items |-> items]

\* s.split(sep) for a one-character separator
RECURSIVE Split(_, _)
Split(s, sep) ==
    IF \A i \in DOMAIN s : s[i] # sep THEN <<s>>
    ELSE LET k == CHOOSE i \in DOMAIN s :
                    s[i] = sep /\ \A j \in 1..(i - 1) : s[j] # sep
         IN  <<SubSeq(s, 1, k - 1)>> \o Split(SubSeq(s, k + 1, Len(s)), sep)

\* items.join(sep)
RECURSIVE Join(_, _)
Join(items, sep) ==
    IF items = <<>> THEN <<>>
    ELSE IF Len(items) = 1 THEN items[1]
    ELSE items[1] \o <<sep>> \o Join(Tail(items), sep)

\* JSON.stringify of an array of strings (no character needs escaping)
JsonStringify(items) ==
    <<"[">> \o Join([i \in DOMAIN items |-> <<"\"">> \o items[i] \o <<"\"">>], ",")
          \o <<"]">>

\* a JSON string literal without escapes
IsJsonString(t) ==
    /\ Len(t) >= 2
    /\ t[1] = "\"" /\ t[Len(t)] = "\""
    /\ \A i \in 2..(Len(t) - 1) : t[i] \notin {"\"", "\\"}

\* JSON.parse(text) for the texts the model sends: an array of string
\* literals (none of which holds a comma), a number written in digits, or
\* a SyntaxError
JsonParse(text) ==
    IF text # <<>> /\ \A i \in DOMAIN text : text[i] \in Digits
    THEN [kind |-> "number", zero |-> \A i \in DOMAIN text : text[i] = "0"]
    ELSE IF Len(text) >= 2 /\ text[1] = "[" /\ text[Len(text)] = "]"
    THEN LET inner == SubSeq(text, 2, Len(text) - 1)
             parts == Split(inner, ",")
         IN  IF inner = <<>> THEN [kind |-> "array", items |-> <<>>]
             ELSE IF \A i \in DOMAIN parts : IsJsonString(parts[i])
             THEN [kind |-> "array",
                   items |-> [i \in DOMAIN parts |->
                                SubSeq(parts[i], 2, Len(parts[i]) - 1)]]
             ELSE [kind |-> "SyntaxError"]
    ELSE [kind |-> "SyntaxError"]

\* fileSchemas.upload: name a string of 1..255 characters, folder a string,
\* tags an array of strings, each optional
UploadBodyValid(body) ==
    /\ body.name.kind \in {"absent", "string"}
    /\ body.name.kind = "string" => Len(body.name.text) \in 1..255
    /\ body.folder.kind \in {"absent", "string"}
    /\ body.tags.kind \in {"absent", "array"}

\* x || undefined for a text field
OrUndefined(field) == IF field.kind = "string" THEN field.text ELSE <<>>

\* POST /api/files/upload after authentication and multer: validation,
\* the handler, and the error handler for whatever is thrown.  JSON.parse
\* is given req.body.tags as it is: an array argument is first converted
\* to text, its items joined with commas.
postUpload(fs, st, file, body, userId, fileId, t, nodeEnv) ==
    LET parsed ==
            IF body.tags.kind = "string"
            THEN IF body.tags.text = <<>> THEN [kind |-> "undefined"]
                 ELSE JsonParse(body.tags.text)
            ELSE IF body.tags.kind = "array"
            THEN JsonParse(Join(body.tags.items, ","))
            ELSE [kind |-> "undefined"]
        tags == IF parsed.kind = "array" THEN parsed.items ELSE <<>>
        \* a non-zero number reaches prisma.file.create as `tags` and is
        \* refused there; zero, like undefined, becomes []
        env == [OkEnv EXCEPT !.dbFails = (parsed.kind = "number" /\ ~parsed.zero)]
        data == [userId |-> userId,
                 originalname |-> file.originalname,
                 name |-> OrUndefined(body.name),
                 mimetype |-> file.mimetype,
                 size |-> file.size,
                 buffer |-> file.buffer,
                 folder |-> OrUndefined(body.folder),
                 tags |-> tags]
        r == uploadFile(fs, st, data, fileId, t, env)
    IN  IF ~UploadBodyValid(body)
        THEN [res |-> errorHandler(Err(400, "Validation failed"), nodeEnv),
              files |-> fs, store |-> st]
        ELSE IF parsed.kind = "SyntaxError"
        THEN [res |-> errorHandler(Err(NoStatusCode, "Unexpected token in JSON"),
                                   nodeEnv),
              files |-> fs, store |-> st]
        ELSE IF r.res.status >= 400
        THEN [res |-> errorHandler(r.res, nodeEnv), files |-> r.files, store |-> r.store]
        ELSE r

----------------------------------------------------------------------------
(* State machine *)

\* a slot with no call in flight
Idle == [op |-> "idle"]

Init ==
    /\ files = {}
    /\ shares = {}
    /\ store = {}
    /\ now = 0
    /\ nextFile = 0
    /\ nextShare = 0
    /\ revoked = {}
    /\ defaulted = {}
    /\ calls = [slot \in 1..MaxInFlight |-> Idle]
    /\ last = [op |-> "start"]

\* POST /api/files/upload
Upload(requests, envs, maxRows) ==
    /\ nextFile < maxRows
    /\ \E data \in requests, env \in envs :
        LET r == uploadFile(files, store, data, nextFile + 1, now, env)
        IN  /\ files' = r.files
            /\ store' = r.store
            /\ nextFile' = IF r.res.status = 201 THEN nextFile + 1 ELSE nextFile
            /\ last' = [op |-> "uploadFile", data |-> data, env |-> env,
                        res |-> r.res]
    /\ UNCHANGED <<shares, now, nextShare, revoked, defaulted, calls>>

\* GET /api/files/:id
GetFile ==
    /\ \E id \in FileIds, u \in Users :
        last' = [op |-> "getFileById", fileId |-> id, userId |-> u,
                 res |-> getFileById(files, id, u, FALSE)]
    /\ UNCHANGED <<files, shares, store, now, nextFile, nextShare, revoked, defaulted, calls>>

\* GET /api/files/:id/download?deleted=
GetDownloadUrl ==
    /\ \E id \in FileIds, u \in Users, includeDeleted \in BOOLEAN :
        last' = [op |-> "getDownloadUrl", fileId |-> id, userId |-> u,
                 includeDeleted |-> includeDeleted,
                 res |-> getDownloadUrl(files, id, u, includeDeleted)]
    /\ UNCHANGED <<files, shares, store, now, nextFile, nextShare, revoked, defaulted, calls>>

\* GET /api/files/:id/preview?deleted=
GetPreviewUrl ==
    /\ \E id \in FileIds, u \in Users, includeDeleted \in BOOLEAN :
        last' = [op |-> "getPreviewUrl", fileId |-> id, userId |-> u,
                 includeDeleted |-> includeDeleted,
                 res |-> getPreviewUrl(files, id, u, includeDeleted)]
    /\ UNCHANGED <<files, shares, store, now, nextFile, nextShare, revoked, defaulted, calls>>

\* GET /api/files?deleted=
ListFiles ==
    /\ \E u \in Users, includeDeleted \in BOOLEAN :
        last' = [op |-> "listFiles", userId |-> u, includeDeleted |-> includeDeleted,
                 res |-> [status |-> 200,
                          files |-> listFiles(files, u, includeDeleted)]]
    /\ UNCHANGED <<files, shares, store, now, nextFile, nextShare, revoked, defaulted, calls>>

\* POST /api/files/trash/hide
HideDeleted ==
    /\ \E u \in Users, ids \in SUBSET FileIds \ {{}} :
        LET r == hideDeletedFiles(files, u, ids)
        IN  /\ files' = r.files
            /\ last' = [op |-> "hideDeletedFiles", userId |-> u, fileIds |-> ids,
                        res |-> [status |-> 200, count |-> r.count]]
    /\ UNCHANGED <<shares, store, now, nextFile, nextShare, revoked, defaulted, calls>>

\* DELETE /api/files/:id
DeleteFile ==
    /\ \E id \in FileIds, u \in Users :
        LET r == deleteFile(files, id, u, now)
        IN  /\ files' = r.files
            /\ last' = [op |-> "deleteFile", fileId |-> id, userId |-> u, res |-> r.res]
    /\ UNCHANGED <<shares, store, now, nextFile, nextShare, revoked, defaulted, calls>>

\* PATCH /api/files/:id/restore
RestoreFile ==
    /\ \E id \in FileIds, u \in Users :
        LET r == restoreFile(files, id, u)
        IN  /\ files' = r.files
            /\ last' = [op |-> "restoreFile", fileId |-> id, userId |-> u, res |-> r.res]
    /\ UNCHANGED <<shares, store, now, nextFile, nextShare, revoked, defaulted, calls>>

\* POST /api/files/trash/delete
PermanentlyDelete(mayFail, cascades) ==
    /\ \E u \in Users, ids \in SUBSET FileIds, cascade \in cascades :
       \E failKeys \in IF mayFail THEN SUBSET StorageKeys(store) ELSE {{}} :
        LET r == permanentlyDeleteFiles(files, store, u, ids, failKeys)
        IN  /\ files' = r.files
            /\ store' = r.store
            /\ shares' = ShareRowsAfterFileDelete(shares, r.removedIds, cascade)
            /\ last' = [op |-> "permanentlyDeleteFiles", userId |-> u,
                        fileIds |-> ids, res |-> r.res]
    /\ UNCHANGED <<now, nextFile, nextShare, revoked, defaulted, calls>>

\* GET /api/files/search
Search(paramSet) ==
    /\ \E params \in paramSet :
        last' = [op |-> "searchFiles", params |-> params,
                 res |-> searchFiles(files, params)]
    /\ UNCHANGED <<files, shares, store, now, nextFile, nextShare, revoked, defaulted, calls>>

\* POST /api/shares/:id
CreateShare ==
    /\ nextShare < MaxShares
    /\ \E id \in FileIds, u \in Users, e \in ExpiryInputs :
        LET data == [fileId |-> id, userId |-> u, expiresAt |-> e]
            r == createShare(files, shares, data, nextShare + 1, now)
            created == r.res.status = 201
        IN  /\ shares' = r.shares
            /\ nextShare' = IF created THEN nextShare + 1 ELSE nextShare
            /\ defaulted' = IF created /\ e = NullTime
                            THEN defaulted \cup {nextShare + 1} ELSE defaulted
            /\ last' = [op |-> "createShare", data |-> data, res |-> r.res]
    /\ UNCHANGED <<files, store, now, nextFile, revoked, calls>>

\* GET /api/shares/:token
ResolveShare ==
    /\ \E token \in Tokens :
        last' = [op |-> "getFileByToken", token |-> token,
                 res |-> getFileByToken(files, shares, token, now)]
    /\ UNCHANGED <<files, shares, store, now, nextFile, nextShare, revoked, defaulted, calls>>

\* DELETE /api/shares/:id
DeactivateShare ==
    /\ \E id \in ShareIds, u \in Users :
        LET r == deactivateShare(shares, id, u)
        IN  /\ shares' = r.shares
            /\ revoked' = IF r.res.status = 200 THEN revoked \cup {id} ELSE revoked
            /\ last' = [op |-> "deactivateShare", shareId |-> id, userId |-> u,
                        res |-> r.res]
    /\ UNCHANGED <<files, store, now, nextFile, nextShare, defaulted, calls>>

\* the share sweep of the cleanup script; previousCount is the count of the
\* sweep run in the step before, -1 when that step was not a sweep
CleanupExpiredShares ==
    /\ LET r == cleanupExpiredShares(shares, now)
       IN  /\ shares' = r.shares
           /\ last' = [op |-> "cleanupExpiredShares",
                       previousCount |-> IF last.op = "cleanupExpiredShares"
                                         THEN last.res.count ELSE -1,
                       res |-> [status |-> 200, count |-> r.count]]
    /\ UNCHANGED <<files, store, now, nextFile, nextShare, revoked, defaulted, calls>>

\* the cleanup script is run
Cleanup ==
    /\ LET r == cleanup(files, shares, now)
       IN  /\ shares' = r.shares
           /\ files' = r.files
           /\ last' = [op |-> "cleanup",
                       res |-> [status |-> 200,
                                expiredSharesCount |-> r.expiredSharesCount,
                                logged |-> r.logged]]
    /\ UNCHANGED <<store, now, nextFile, nextShare, revoked, defaulted, calls>>

\* time passes: the clock advances by one of the given steps
\* (milliseconds), for at most maxDays days
Advance(steps, maxDays) ==
    /\ \E d \in steps :
        /\ d < MsPerDay => (now + d) % MsPerDay <= MaxMs
        /\ d >= MsPerDay => (now \div MsPerDay) + (d \div MsPerDay) <= maxDays
        /\ now' = now + d
    /\ last' = [op |-> "tick"]
    /\ UNCHANGED <<files, shares, store, nextFile, nextShare, revoked, defaulted, calls>>

Tick(steps) == Advance(steps, MaxDays)

(* File lifecycle of two owners; every call to the object store, to sharp *)
(* and to the database succeeds                                           *)
UploadFile == Upload(FileRequests, {OkEnv}, MaxFiles)
PurgeFiles == PermanentlyDelete(FALSE, {FALSE})

Next ==
    \/ UploadFile
    \/ GetFile
    \/ GetDownloadUrl
    \/ GetPreviewUrl
    \/ ListFiles
    \/ HideDeleted
    \/ DeleteFile
    \/ RestoreFile
    \/ PurgeFiles

Spec == Init /\ [][Next]_vars

(* Share lifecycle over one owner's note, with the clock running for days *)
UploadNote == Upload({ReqNote(U1)}, {OkEnv}, MaxSharedFiles)
PurgeShared == PermanentlyDelete(FALSE, BOOLEAN)
TickShare == Tick({1, ExpiryMs - 1})

NextShare ==
    \/ UploadNote
    \/ DeleteFile
    \/ RestoreFile
    \/ PurgeShared
    \/ CreateShare
    \/ ResolveShare
    \/ DeactivateShare
    \/ CleanupExpiredShares
    \/ TickShare

SpecShare == Init /\ [][NextShare]_vars

(* File lifecycle of one owner in which single calls to the object store, *)
(* to sharp or to the database fail                                       *)
FaultyEnvs ==
    {OkEnv,
     [OkEnv EXCEPT !.headError = TRUE],
     [OkEnv EXCEPT !.putFails = TRUE],
     [OkEnv EXCEPT !.sharpFails = TRUE],
     [OkEnv EXCEPT !.previewPutFails = TRUE],
     [OkEnv EXCEPT !.dbFails = TRUE]}

UploadFaulty == Upload({ReqNote(U1), ReqCat(U1)}, FaultyEnvs, MaxFiles)
PurgeFaulty == PermanentlyDelete(TRUE, {FALSE})

NextFaulty ==
    \/ UploadFaulty
    \/ DeleteFile
    \/ RestoreFile
    \/ PurgeFaulty

SpecFaulty == Init /\ [][NextFaulty]_vars

(* Search over uploaded files *)
ReqWorkDoc(u) ==
    [userId |-> u, originalname |-> <<"W","o","r","k",".","t","x","t">>, name |-> <<>>,
     mimetype |-> TextPlain, size |-> 1, buffer |-> <<"b1">>,
     folder |-> FolderDocs, tags |-> <<TagImportant>>]

ReqWorkPic(u) ==
    [userId |-> u, originalname |-> <<"w","o","r","k",".","p","n","g">>, name |-> <<>>,
     mimetype |-> ImagePng, size |-> 2, buffer |-> <<"b2">>,
     folder |-> <<>>, tags |-> <<>>]

ReqTagged(u) ==
    [userId |-> u, originalname |-> <<"t",".","t","x","t">>, name |-> <<>>,
     mimetype |-> TextPlain, size |-> 3, buffer |-> <<"b3">>,
     folder |-> <<>>, tags |-> <<TagWork>>]

ReqBoth(u) ==
    [userId |-> u, originalname |-> <<"b",".","p","n","g">>, name |-> <<>>,
     mimetype |-> ImagePng, size |-> 4, buffer |-> <<"b4">>,
     folder |-> FolderDocs, tags |-> <<TagImportant, TagWork>>]

ReqOther(u) ==
    [userId |-> u, originalname |-> <<"o",".","t","x","t">>, name |-> <<>>,
     mimetype |-> TextPlain, size |-> 5, buffer |-> <<"b5">>,
     folder |-> <<>>, tags |-> <<TagImportant>>]

SearchRequests ==
    {ReqWorkDoc(U1), ReqWorkPic(U1), ReqTagged(U1), ReqBoth(U1), ReqOther(U1),
     ReqBoth(U2)}

\* page and limit 0: not given
SearchParams ==
    [userId : Users,
     query : {<<>>, TagWork},
     type : {<<>>, <<"i","m","a","g","e">>},
     tags : {<<>>, <<TagImportant>>},
     folder : {<<>>, FolderDocs},
     page : {0, 2},
     limit : {0, 1}]

UploadSearchable == Upload(SearchRequests, {OkEnv}, MaxFiles)
SearchFiles == Search(SearchParams)

NextSearch ==
    \/ UploadSearchable
    \/ DeleteFile
    \/ SearchFiles

SpecSearch == Init /\ [][NextSearch]_vars

(* Trash ageing: two owners' files are soft-deleted and restored while    *)
(* the clock runs past the purge age and the cleanup script is run        *)
UploadTrash == Upload({ReqNote(U1), ReqCat(U2)}, {OkEnv}, MaxFiles)
TickTrash == Advance({1, TRASH_PURGE_DAYS * MsPerDay}, TRASH_PURGE_DAYS)

NextCleanup ==
    \/ UploadTrash
    \/ DeleteFile
    \/ RestoreFile
    \/ Cleanup
    \/ TickTrash

SpecCleanup == Init /\ [][NextCleanup]_vars

(* Error reporting: failing uploads and thrown errors pass through the    *)
(* error handler of a process started with some NODE_ENV                   *)
UnsetEnv == ""
NodeEnvs == {UnsetEnv, "development", "test", "production"}

ThrownErrors ==
    {Err(400, "Validation failed"),
     Err(401, "Access token required"),
     Err(404, "File not found"),
     Err(409, "A file with this name already exists"),
     Err(500, "Failed to create user"),
     Err(NoStatusCode, "Share token is required"),
     Err(NoStatusCode, "Failed to generate download URL: connect ETIMEDOUT"),
     Err(NoStatusCode, "Can't reach database server at db:5432")}

\* POST /api/files/upload followed, on failure, by next(error)
UploadReported ==
    /\ nextFile < MaxFiles
    /\ \E data \in {ReqNote(U1), ReqCat(U1)}, env \in FaultyEnvs, nodeEnv \in NodeEnvs :
        LET r == uploadFile(files, store, data, nextFile + 1, now, env)
            failed == r.res.status >= 400
        IN  /\ files' = r.files
            /\ store' = r.store
            /\ nextFile' = IF r.res.status = 201 THEN nextFile + 1 ELSE nextFile
            /\ last' = [op |-> "uploadFile", data |-> data, env |-> env,
                        nodeEnv |-> nodeEnv,
                        error |-> IF failed THEN r.res ELSE Err(NoStatusCode, ""),
                        failed |-> failed,
                        res |-> IF failed THEN errorHandler(r.res, nodeEnv) ELSE r.res]
    /\ UNCHANGED <<shares, now, nextShare, revoked, defaulted, calls>>

\* next(error) for an error thrown by a route, a middleware or a service
HandleError ==
    /\ \E error \in ThrownErrors, nodeEnv \in NodeEnvs :
        last' = [op |-> "errorHandler", nodeEnv |-> nodeEnv, error |-> error,
                 failed |-> TRUE,
                 res |-> errorHandler(error, nodeEnv)]
    /\ UNCHANGED <<files, shares, store, now, nextFile, nextShare, revoked, defaulted, calls>>

NextErrors ==
    \/ UploadReported
    \/ DeleteFile
    \/ RestoreFile
    \/ HandleError

SpecErrors == Init /\ [][NextErrors]_vars

(* The upload route: multipart requests with the optional fields absent, *)
(* sent once (text) or sent several times (array)                         *)
UploadParts == {ReqNote(U1), ReqCat(U1)}

UploadBodies ==
    [name : {AbsentField, TextField(<<>>), TextField(<<"n">>)},
     folder : {AbsentField, TextField(FolderDocs)},
     tags : {AbsentField,
             TextField(JsonStringify(<<TagWork, TagImportant>>)),
             TextField(JsonStringify(<<>>)),
             TextField(TagWork),
             ArrayField(<<TagWork, TagImportant>>),
             ArrayField(<<JsonStringify(<<TagWork>>)>>),
             ArrayField(<<<<"0">>>>)}]

\* POST /api/files/upload
PostUpload ==
    /\ nextFile < MaxRoutedFiles
    /\ \E file \in UploadParts, body \in UploadBodies, u \in Users,
          nodeEnv \in {"production"} :
        LET r == postUpload(files, store, file, body, u, nextFile + 1, now, nodeEnv)
        IN  /\ files' = r.files
            /\ store' = r.store
            /\ nextFile' = IF r.res.status = 201 THEN nextFile + 1 ELSE nextFile
            /\ last' = [op |-> "postUpload", file |-> file, body |-> body,
                        userId |-> u, res |-> r.res]
    /\ UNCHANGED <<shares, now, nextShare, revoked, defaulted, calls>>

NextRoute ==
    \/ PostUpload
    \/ GetFile
    \/ DeleteFile

SpecRoute == Init /\ [][NextRoute]_vars

----------------------------------------------------------------------------
(* Concurrent calls: each action below is one awaited database or object- *)
(* store call of a service method; calls in different slots interleave    *)

\* the response of a call that has not finished
InProgress == [status |-> 102]

InFlight(op) == {slot \in DOMAIN calls : calls[slot].op = op}
FreeSlots == InFlight("idle")
LeastFree == CHOOSE slot \in FreeSlots : \A other \in FreeSlots : slot <= other

RaceUsers == {U1}
RaceRequests == {ReqCat(U1)}

\* restoreFile, lines 359-365: findFirst, and the 404 when nothing matches
RestoreFind ==
    /\ FreeSlots # {}
    /\ \E id \in FileIds, u \in RaceUsers :
        LET found == {f \in files : f.id = id /\ f.ownerId = u /\ f.isDeleted}
            call == [op |-> "restoreFile", pc |-> "update", fileId |-> id, userId |-> u]
        IN  /\ calls' = IF found = {} THEN calls
                        ELSE [calls EXCEPT ![LeastFree] = call]
            /\ last' = [op |-> "restoreFile", step |-> "findFirst", slot |-> LeastFree,
                        fileId |-> id, userId |-> u,
                        res |-> IF found = {} THEN Err(404, "File not found in trash")
                                ELSE InProgress]
    /\ UNCHANGED <<files, shares, store, now, nextFile, nextShare, revoked, defaulted>>

\* restoreFile, lines 372-378: update where {id}
RestoreUpdate ==
    \E slot \in InFlight("restoreFile") :
        LET c == calls[slot]
            exists == \E f \in files : f.id = c.fileId
        IN  /\ files' = {IF f.id = c.fileId
                         THEN [f EXCEPT !.isDeleted = FALSE, !.deletedAt = NullTime]
                         ELSE f : f \in files}
            /\ calls' = [calls EXCEPT ![slot] = Idle]
            /\ last' = [op |-> "restoreFile", step |-> "update", slot |-> slot,
                        fileId |-> c.fileId, userId |-> c.userId,
                        res |-> IF exists THEN [status |-> 200]
                                ELSE Err(NoStatusCode, "Record to update not found")]
            /\ UNCHANGED <<shares, store, now, nextFile, nextShare, revoked, defaulted>>

\* deleteFile, lines 284-294: findFirst, and the 404 when nothing matches
DeleteFind ==
    /\ FreeSlots # {}
    /\ \E id \in FileIds, u \in RaceUsers :
        LET found == {f \in files : f.id = id /\ f.ownerId = u /\ ~f.isDeleted}
            call == [op |-> "deleteFile", pc |-> "update", fileId |-> id, userId |-> u]
        IN  /\ calls' = IF found = {} THEN calls
                        ELSE [calls EXCEPT ![LeastFree] = call]
            /\ last' = [op |-> "deleteFile", step |-> "findFirst", slot |-> LeastFree,
                        fileId |-> id, userId |-> u,
                        res |-> IF found = {} THEN Err(404, "File not found")
                                ELSE InProgress]
    /\ UNCHANGED <<files, shares, store, now, nextFile, nextShare, revoked, defaulted>>

\* deleteFile, lines 296-302: update where {id}, deletedAt = new Date()
DeleteUpdate ==
    \E slot \in InFlight("deleteFile") :
        LET c == calls[slot]
            exists == \E f \in files : f.id = c.fileId
        IN  /\ files' = {IF f.id = c.fileId
                         THEN [f EXCEPT !.isDeleted = TRUE, !.deletedAt = now]
                         ELSE f : f \in files}
            /\ calls' = [calls EXCEPT ![slot] = Idle]
            /\ last' = [op |-> "deleteFile", step |-> "update", slot |-> slot,
                        fileId |-> c.fileId, userId |-> c.userId,
                        res |-> IF exists THEN [status |-> 200]
                                ELSE Err(NoStatusCode, "Record to update not found")]
            /\ UNCHANGED <<shares, store, now, nextFile, nextShare, revoked, defaulted>>

\* the deleteObject calls of the purge loop, lines 330-337, in order
RECURSIVE PurgeKeys(_)
PurgeKeys(targets) ==
    IF targets = {} THEN <<>>
    ELSE LET f == CHOOSE g \in targets : \A h \in targets : g.id <= h.id
         IN  <<f.storageKey>>
             \o (IF f.previewKey # NullStr THEN <<f.previewKey>> ELSE <<>>)
             \o PurgeKeys(targets \ {f})

\* permanentlyDeleteFiles, lines 316-327: the argument check and findMany
PurgeFind ==
    /\ FreeSlots # {}
    /\ \E u \in RaceUsers, ids \in SUBSET FileIds :
        LET targets == {f \in files : f.ownerId = u /\ f.id \in ids /\ f.isDeleted}
            call == [op |-> "permanentlyDeleteFiles",
                     pc |-> IF targets = {} THEN "deleteMany" ELSE "storage",
                     userId |-> u,
                     fileIds |-> {f.id : f \in targets},
                     keys |-> PurgeKeys(targets)]
        IN  /\ calls' = IF ids = {} THEN calls
                        ELSE [calls EXCEPT ![LeastFree] = call]
            /\ last' = [op |-> "permanentlyDeleteFiles", step |-> "findMany",
                        slot |-> LeastFree, userId |-> u, fileIds |-> ids,
                        res |-> IF ids = {} THEN Err(400, "fileIds array is required")
                                ELSE InProgress]
    /\ UNCHANGED <<files, shares, store, now, nextFile, nextShare, revoked, defaulted>>

\* permanentlyDeleteFiles, lines 330-337: one StorageService.deleteFile
PurgeDeleteObject ==
    \E slot \in InFlight("permanentlyDeleteFiles") :
        LET c == calls[slot]
        IN  /\ c.pc = "storage"
            /\ store' = StorageDeleteFile(store, Head(c.keys))
            /\ calls' = [calls EXCEPT ![slot] =
                            [c EXCEPT !.keys = Tail(c.keys),
                                      !.pc = IF Tail(c.keys) = <<>> THEN "deleteMany"
                                             ELSE "storage"]]
            /\ last' = [op |-> "permanentlyDeleteFiles", step |-> "deleteObject",
                        slot |-> slot, userId |-> c.userId, fileIds |-> c.fileIds,
                        res |-> InProgress]
            /\ UNCHANGED <<files, shares, now, nextFile, nextShare, revoked, defaulted>>

\* permanentlyDeleteFiles, lines 340-349: deleteMany and the count
PurgeDeleteMany ==
    \E slot \in InFlight("permanentlyDeleteFiles") :
        LET c == calls[slot]
            removed == {f \in files : /\ f.ownerId = c.userId
                                      /\ f.id \in c.fileIds
                                      /\ f.isDeleted}
        IN  /\ c.pc = "deleteMany"
            /\ files' = files \ removed
            /\ calls' = [calls EXCEPT ![slot] = Idle]
            /\ last' = [op |-> "permanentlyDeleteFiles", step |-> "deleteMany",
                        slot |-> slot, userId |-> c.userId, fileIds |-> c.fileIds,
                        res |-> [status |-> 200, count |-> Cardinality(removed)]]
            /\ UNCHANGED <<shares, store, now, nextFile, nextShare, revoked, defaulted>>

\* uploadFile, lines 49-78: the storage key, fileExists, and the 409
UploadCheck ==
    /\ FreeSlots # {}
    /\ nextFile + Cardinality(InFlight("uploadFile")) < MaxFiles
    /\ \E data \in RaceRequests :
        LET fileId == nextFile + Cardinality(InFlight("uploadFile")) + 1
            storageKey == storageKeyOf(data.userId, data, fileId)
            exists == fileExists(store, storageKey, FALSE) = "true"
            call == [op |-> "uploadFile", pc |-> "put", data |-> data,
                     name |-> finalName(data, fileId),
                     storageKey |-> storageKey, previewKey |-> NullStr]
        IN  /\ calls' = IF exists THEN calls
                        ELSE [calls EXCEPT ![LeastFree] = call]
            /\ last' = [op |-> "uploadFile", step |-> "fileExists", slot |-> LeastFree,
                        data |-> data,
                        res |-> IF exists
                                THEN Err(409, "A file with this name already exists")
                                ELSE InProgress]
    /\ UNCHANGED <<files, shares, store, now, nextFile, nextShare, revoked, defaulted>>

\* uploadFile, lines 81-90: the write of the primary object
UploadPut ==
    \E slot \in InFlight("uploadFile") :
        LET c == calls[slot]
        IN  /\ c.pc = "put"
            /\ store' = StorageUploadFile(store, c.data.buffer, c.storageKey,
                                          c.data.mimetype)
            /\ calls' = [calls EXCEPT ![slot] = [c EXCEPT !.pc = "preview"]]
            /\ last' = [op |-> "uploadFile", step |-> "put", slot |-> slot,
                        data |-> c.data, res |-> InProgress]
            /\ UNCHANGED <<files, shares, now, nextFile, nextShare, revoked, defaulted>>

\* uploadFile, lines 93-105: generatePreview and uploadPreview
UploadPreview ==
    \E slot \in InFlight("uploadFile") :
        LET c == calls[slot]
            previewBuffer == generatePreview(c.data.buffer, c.data.mimetype, FALSE)
            previewKey == IF previewBuffer # <<>> THEN previewKeyOf(c.storageKey)
                          ELSE NullStr
        IN  /\ c.pc = "preview"
            /\ store' = IF previewBuffer # <<>>
                        THEN StorageUploadFile(store, previewBuffer, previewKey,
                                               <<"image/jpeg">>)
                        ELSE store
            /\ calls' = [calls EXCEPT ![slot] =
                            [c EXCEPT !.pc = "create", !.previewKey = previewKey]]
            /\ last' = [op |-> "uploadFile", step |-> "preview", slot |-> slot,
                        data |-> c.data, res |-> InProgress]
            /\ UNCHANGED <<files, shares, now, nextFile, nextShare, revoked, defaulted>>

\* uploadFile, lines 108-124: prisma.file.create and the response
UploadCreate ==
    \E slot \in InFlight("uploadFile") :
        LET c == calls[slot]
            file == [id |-> nextFile + 1,
                     name |-> c.name,
                     originalName |-> c.data.originalname,
                     size |-> c.data.size,
                     mimeType |-> c.data.mimetype,
                     storageKey |-> c.storageKey,
                     previewKey |-> c.previewKey,
                     tags |-> c.data.tags,
                     folder |-> c.data.folder,
                     ownerId |-> c.data.userId,
                     isDeleted |-> FALSE,
                     deletedAt |-> NullTime,
                     createdAt |-> now]
        IN  /\ c.pc = "create"
            /\ files' = files \cup {file}
            /\ nextFile' = nextFile + 1
            /\ calls' = [calls EXCEPT ![slot] = Idle]
            /\ last' = [op |-> "uploadFile", step |-> "create", slot |-> slot,
                        data |-> c.data,
                        res |-> [status |-> 201, file |-> mapFileToResponse(file)]]
            /\ UNCHANGED <<shares, store, now, nextShare, revoked, defaulted>>

\* the clock moves between the steps of the calls in flight
TickRace ==
    /\ now < MaxMs
    /\ now' = now + 1
    /\ last' = [op |-> "tick"]
    /\ UNCHANGED <<files, shares, store, nextFile, nextShare, revoked, defaulted, calls>>

NextRace ==
    \/ UploadCheck
    \/ UploadPut
    \/ UploadPreview
    \/ UploadCreate
    \/ DeleteFind
    \/ DeleteUpdate
    \/ RestoreFind
    \/ RestoreUpdate
    \/ PurgeFind
    \/ PurgeDeleteObject
    \/ PurgeDeleteMany
    \/ TickRace

SpecRace == Init /\ [][NextRace]_vars

(* Uploads of one owner whose keys meet: a picture and a file named like *)
(* that picture's preview                                                 *)
MeetingRequests == {ReqCat(U1), ReqThumb(U1)}
ProbeEnvs == {OkEnv, [OkEnv EXCEPT !.headError = TRUE]}

UploadMeeting == Upload(MeetingRequests, ProbeEnvs, MaxFiles)

NextOverwrite ==
    \/ UploadMeeting
    \/ DeleteFile
    \/ RestoreFile
    \/ PurgeFiles

SpecOverwrite == Init /\ [][NextOverwrite]_vars

----------------------------------------------------------------------------
(* Properties *)

FileOf(id) == {f \in files : f.id = id}
ShareWithToken(token) == {s \in shares : s.token = token}
ResponseIds(resp) == {resp[i].id : i \in DOMAIN resp}

\* a share is usable: active, unexpired, and its file exists and is live
ShareUsable(token) ==
    \E s \in shares :
        /\ s.token = token
        /\ s.isActive
        /\ s.expiresAt > now
        /\ \E f \in files : f.id = s.fileId /\ ~f.isDeleted

\* C1: resolving a token succeeds exactly when a share with that token is
\* active, unexpired and points at an existing File row that is not
\* soft-deleted; in every other state the answer is 404.
C1_ResolveIffUsable ==
    /\ \A token \in Tokens :
          getFileByToken(files, shares, token, now).status =
              IF ShareUsable(token) THEN 200 ELSE 404
    /\ last.op = "getFileByToken" =>
          last.res.status = IF ShareUsable(last.token) THEN 200 ELSE 404

\* an active, unexpired share whose file is in the trash was just refused
C1_Witness ==
    /\ last.op = "getFileByToken"
    /\ last.res.status = 404
    /\ \E s \in shares :
          /\ s.token = last.token
          /\ s.isActive
          /\ s.expiresAt > now
          /\ \E f \in files : f.id = s.fileId /\ f.isDeleted

\* C2: once deactivateShare has succeeded on a share, resolving its token
\* answers 404, also while expiresAt is in the future and the file is live.
C2_DeactivatedNotResolved ==
    /\ \A s \in shares :
          s.id \in revoked => getFileByToken(files, shares, s.token, now).status = 404
    /\ (last.op = "getFileByToken" /\ \E s \in shares : s.token = last.token /\ s.id \in revoked)
          => last.res.status = 404

\* a deactivated share, not yet expired and with a live file, was just refused
C2_Witness ==
    /\ last.op = "getFileByToken"
    /\ last.res.status = 404
    /\ \E s \in shares :
          /\ s.token = last.token
          /\ s.id \in revoked
          /\ s.expiresAt > now
          /\ \E f \in files : f.id = s.fileId /\ ~f.isDeleted

\* C3: a share that is inactive stays inactive in every later state and its
\* token no longer resolves; deactivating an inactive share as its creator
\* succeeds and leaves it inactive.
C3_InactiveIsTerminal ==
    [][ /\ \A s \in shares : \A s2 \in shares' :
              (~s.isActive /\ s2.id = s.id) =>
                  /\ ~s2.isActive
                  /\ getFileByToken(files', shares', s2.token, now').status = 404
        /\ \A s \in shares :
              (/\ last'.op = "deactivateShare"
               /\ last'.shareId = s.id
               /\ last'.userId = s.createdById
               /\ ~s.isActive)
              => /\ last'.res.status = 200
                 /\ \E s2 \in shares' : s2.id = s.id /\ ~s2.isActive
      ]_vars

\* a share the sweep made inactive, with a live file, was just refused
C3_Witness ==
    /\ last.op = "getFileByToken"
    /\ last.res.status = 404
    /\ \E s \in shares :
          /\ s.token = last.token
          /\ ~s.isActive
          /\ s.id \notin revoked
          /\ \E f \in files : f.id = s.fileId /\ ~f.isDeleted

\* C4: a purge whose ids all name files that are not soft-deleted reports
\* count 0 and leaves the File table and the object store as they were.
C4_PurgeOfLiveFilesIsNoOp ==
    [][ (/\ last'.op = "permanentlyDeleteFiles"
         /\ last'.fileIds # {}
         /\ \A id \in last'.fileIds : \E f \in files : f.id = id /\ ~f.isDeleted)
        => /\ last'.res.status = 200
           /\ last'.res.count = 0
           /\ files' = files
           /\ store' = store
      ]_vars

\* the owner just purged two live files of theirs: nothing was removed
C4_Witness ==
    /\ last.op = "permanentlyDeleteFiles"
    /\ Cardinality(last.fileIds) = 2
    /\ \A id \in last.fileIds :
          \E f \in files : f.id = id /\ ~f.isDeleted /\ f.ownerId = last.userId
    /\ last.res.count = 0

\* C5: a soft delete of a live owned file directly followed by its restore
\* leaves the row with isDeleted = false and deletedAt = null, and the
\* owner's listing of live files contains it again.
C5_DeleteThenRestore ==
    [][ (/\ last.op = "deleteFile"
         /\ last.res.status = 200
         /\ last'.op = "restoreFile"
         /\ last'.fileId = last.fileId
         /\ last'.userId = last.userId)
        => /\ last'.res.status = 200
           /\ \E f \in files' :
                 /\ f.id = last'.fileId
                 /\ ~f.isDeleted
                 /\ f.deletedAt = NullTime
           /\ last'.fileId \in ResponseIds(listFiles(files', last'.userId, FALSE))
           /\ last'.fileId \notin ResponseIds(listFiles(files', last'.userId, TRUE))
      ]_vars

\* a file was just restored and is live again
C5_Witness ==
    /\ last.op = "restoreFile"
    /\ last.res.status = 200
    /\ \E f \in files : f.id = last.fileId /\ ~f.isDeleted /\ f.deletedAt = NullTime

\* C6: an upload by an owner that resolves to the storage key of a file this
\* owner has uploaded, whose object is in the store, fails with 409, writes
\* nothing to the object store and creates no File row.
C6_SecondUploadConflicts ==
    [][ (/\ last'.op = "uploadFile"
         /\ \E f \in files :
               /\ f.ownerId = last'.data.userId
               /\ f.storageKey = storageKeyOf(last'.data.userId, last'.data, nextFile + 1)
               /\ f.storageKey \in StorageKeys(store))
        => /\ last'.res.status = 409
           /\ store' = store
           /\ files' = files
      ]_vars

\* C7: after a successful upload, getFileById by the uploader returns a file
\* whose storageKey is ownerId/category/finalName, with category 'image' for
\* image/* types, 'video' for video/* types and 'files' otherwise, and whose
\* mimeType, size and originalName are the uploaded ones.
C7_UploadThenGet ==
    [][ (last'.op = "uploadFile" /\ last'.res.status = 201)
        => LET data == last'.data
               got == getFileById(files', last'.res.file.id, data.userId, FALSE)
               prefix == IF Len(data.mimetype) >= 6 THEN SubSeq(data.mimetype, 1, 6)
                         ELSE <<>>
               cat == IF prefix = <<"i","m","a","g","e","/">> THEN <<"i","m","a","g","e">>
                      ELSE IF prefix = <<"v","i","d","e","o","/">>
                           THEN <<"v","i","d","e","o">>
                           ELSE <<"f","i","l","e","s">>
           IN  /\ got.status = 200
               /\ got.file.storageKey =
                      data.userId \o <<"/">> \o cat \o <<"/">> \o
                          finalName(data, last'.res.file.id)
               /\ got.file.mimeType = data.mimetype
               /\ got.file.size = data.size
               /\ got.file.originalName = data.originalname
      ]_vars

\* a video was just uploaded under a display name that had to be cleaned
C7_Witness ==
    /\ last.op = "uploadFile"
    /\ last.res.status = 201
    /\ last.data.mimetype = VideoMp4
    /\ last.res.file.storageKey =
           U1 \o <<"/","v","i","d","e","o","/","m"," ","-","n",".","m","p","4">>
    /\ getFileById(files, last.res.file.id, U1, FALSE).status = 200

\* C8: a share created without a caller expiresAt, never deactivated and
\* with a live file, resolves at every instant from its creation up to but
\* not including creation + DEFAULT_SHARE_EXPIRY_DAYS days, and answers 404
\* from then on.
C8_DefaultExpiryWindow ==
    /\ \A s \in shares :
          (/\ s.id \in defaulted
           /\ s.id \notin revoked
           /\ \E f \in files : f.id = s.fileId /\ ~f.isDeleted)
          => /\ s.createdAt <= now
             /\ getFileByToken(files, shares, s.token, now).status =
                    IF now < s.createdAt + 7 * 24 * 60 * 60 * 1000 THEN 200 ELSE 404
             /\ (last.op = "getFileByToken" /\ last.token = s.token) =>
                    last.res.status =
                        IF now < s.createdAt + 7 * 24 * 60 * 60 * 1000 THEN 200 ELSE 404

\* a defaulted share was just resolved one millisecond before its expiry
C8_Witness ==
    /\ last.op = "getFileByToken"
    /\ last.res.status = 200
    /\ \E s \in shares :
          /\ s.token = last.token
          /\ s.id \in defaulted
          /\ s.id \notin revoked
          /\ now = s.createdAt + 7 * 24 * 60 * 60 * 1000 - 1

\* what the claim says a search with a query and a tags filter selects
C9_Selected(f, p) ==
    /\ f.ownerId = p.userId
    /\ ~f.isDeleted
    /\ \/ Contains(ToLower(f.originalName), ToLower(p.query))
       \/ \E i \in DOMAIN f.tags : f.tags[i] = p.query
    /\ \E i \in DOMAIN f.tags : \E j \in DOMAIN p.tags : f.tags[i] = p.tags[j]
    /\ (p.type # <<>> => StartsWith(f.mimeType, p.type))
    /\ (p.folder # <<>> => f.folder = p.folder)

\* C9: a search with a query q and a tags filter T selects exactly the
\* owner's non-deleted files with (originalName contains q, ignoring case, or
\* q among the tags) and (some tag in T), and with the type prefix and the
\* folder when given: total counts them, the page returned is taken from
\* them, and a first page that is long enough holds all of them.
C9_SearchQueryAndTags ==
    (last.op = "searchFiles" /\ last.params.query # <<>> /\ last.params.tags # <<>>)
    => LET selected == {f.id : f \in {g \in files : C9_Selected(g, last.params)}}
           res == last.res
           skip == (res.page - 1) * res.limit
           rest == IF Cardinality(selected) > skip
                   THEN Cardinality(selected) - skip ELSE 0
       IN  /\ res.total = Cardinality(selected)
           /\ ResponseIds(res.files) \subseteq selected
           /\ Cardinality(ResponseIds(res.files)) = Len(res.files)
           /\ Len(res.files) = IF rest < res.limit THEN rest ELSE res.limit
           /\ (skip = 0 /\ res.limit >= res.total) => ResponseIds(res.files) = selected

\* a search for "work" with tag filter "imp" just returned the one file that
\* has both tags and left out the caller's file tagged "work" only
C9_Witness ==
    /\ last.op = "searchFiles"
    /\ last.params.query = TagWork
    /\ last.params.tags = <<TagImportant>>
    /\ last.params.page = 0
    /\ last.params.limit = 0
    /\ Len(last.res.files) = 1
    /\ last.res.files[1].tags = <<TagImportant, TagWork>>
    /\ \E f \in files :
          /\ f.ownerId = last.params.userId
          /\ ~f.isDeleted
          /\ f.tags = <<TagWork>>

\* C10: hiding sets the folder of exactly the caller's soft-deleted files
\* among the ids to the sentinel and counts them, changes nothing else,
\* keeps the rows, and takes them out of both listings; a later purge of a
\* hidden file by its owner removes the row.
C10_HideFromTrash ==
    [][ /\ last'.op = "hideDeletedFiles" =>
              LET u == last'.userId
                  hit == {f \in files : /\ f.ownerId = u
                                        /\ f.id \in last'.fileIds
                                        /\ f.isDeleted}
              IN  /\ last'.res.count = Cardinality(hit)
                  /\ files' = (files \ hit) \cup
                                  {[f EXCEPT !.folder = HIDDEN_TRASH] : f \in hit}
                  /\ {f.id : f \in files'} = {f.id : f \in files}
                  /\ \A f \in hit :
                        /\ f.id \notin ResponseIds(listFiles(files', u, TRUE))
                        /\ f.id \notin ResponseIds(listFiles(files', u, FALSE))
                  /\ store' = store
        /\ (last'.op = "permanentlyDeleteFiles" /\ last'.res.status = 200) =>
              \A f \in files :
                  (/\ f.ownerId = last'.userId
                   /\ f.id \in last'.fileIds
                   /\ f.isDeleted
                   /\ f.folder = HIDDEN_TRASH)
                  => f.id \notin {g.id : g \in files'}
      ]_vars

\* two ids were just given to hide: the caller's trashed file was hidden and
\* counted, the other id was skipped
C10_Witness ==
    /\ last.op = "hideDeletedFiles"
    /\ Cardinality(last.fileIds) = 2
    /\ last.res.count = 1
    /\ \E f \in files :
          /\ f.id \in last.fileIds
          /\ f.ownerId = last.userId
          /\ f.isDeleted
          /\ f.folder = HIDDEN_TRASH
    /\ \E f \in files :
          /\ f.id \in last.fileIds
          /\ f.folder # HIDDEN_TRASH

\* an id no File row ever has (row ids are drawn from 1 upwards)
NoSuchFileId == 0

\* C11: for a caller who does not own file f, Get, the signed download
\* and preview URLs, SoftDelete and Restore on f's id give the same 404
\* outcome, and leave the same state, as on an id that does not exist,
\* whatever the state of f.
C11_ForeignLooksMissing ==
    \A f \in files : \A u \in Users \ {f.ownerId} :
        /\ \A d \in BOOLEAN :
              /\ getFileById(files, f.id, u, d) = getFileById(files, NoSuchFileId, u, d)
              /\ getDownloadUrl(files, f.id, u, d) =
                     getDownloadUrl(files, NoSuchFileId, u, d)
              /\ getPreviewUrl(files, f.id, u, d) =
                     getPreviewUrl(files, NoSuchFileId, u, d)
              /\ getFileById(files, f.id, u, d).status = 404
        /\ deleteFile(files, f.id, u, now) = deleteFile(files, NoSuchFileId, u, now)
        /\ deleteFile(files, f.id, u, now).res.status = 404
        /\ restoreFile(files, f.id, u) = restoreFile(files, NoSuchFileId, u)
        /\ restoreFile(files, f.id, u).res.status = 404
        /\ (/\ last.op \in {"getFileById", "getDownloadUrl", "getPreviewUrl",
                             "deleteFile", "restoreFile"}
            /\ last.fileId = f.id
            /\ last.userId = u)
           => last.res =
                CASE last.op = "getFileById" ->
                        getFileById(files, NoSuchFileId, u, FALSE)
                  [] last.op = "getDownloadUrl" ->
                        getDownloadUrl(files, NoSuchFileId, u, last.includeDeleted)
                  [] last.op = "getPreviewUrl" ->
                        getPreviewUrl(files, NoSuchFileId, u, last.includeDeleted)
                  [] last.op = "deleteFile" ->
                        deleteFile(files, NoSuchFileId, u, now).res
                  [] OTHER -> restoreFile(files, NoSuchFileId, u).res

\* a download URL was just refused to a caller for a soft-deleted file
\* of another owner, asked for with deleted=true
C11_Witness ==
    /\ last.op = "getDownloadUrl"
    /\ last.includeDeleted
    /\ last.res.status = 404
    /\ \E f \in files :
          /\ f.id = last.fileId
          /\ f.ownerId # last.userId
          /\ f.isDeleted

\* a token no Share row ever has
UnknownToken == Token(0)

\* C12: every failing Resolve gives an anonymous caller the same error
\* envelope (status code and message), whether the token is unknown, the
\* share deactivated or expired, or the file soft-deleted or missing.
C12_UniformResolveFailure ==
    \A nodeEnv \in {"production", "development"} :
        \A t1 \in Tokens \cup {UnknownToken}, t2 \in Tokens \cup {UnknownToken} :
            LET r1 == getFileByToken(files, shares, t1, now)
                r2 == getFileByToken(files, shares, t2, now)
            IN  (r1.status # 200 /\ r2.status # 200)
                    => errorHandler(r1, nodeEnv) = errorHandler(r2, nodeEnv)

\* C13: when the preview of an image upload cannot be generated or cannot
\* be stored, and the primary object was written, Upload still succeeds
\* and returns a File without previewKey.
C13_PreviewFailureNonFatal ==
    (/\ last.op = "uploadFile"
     /\ StartsWith(last.data.mimetype, <<"i","m","a","g","e","/">>)
     /\ (last.env.sharpFails \/ last.env.previewPutFails)
     /\ ~last.env.putFails
     /\ ~last.env.dbFails
     /\ last.res.status # 409)
    => /\ last.res.status = 201
       /\ last.res.file.previewKey = NullStr

IsPreviewKey(key) ==
    /\ Len(key) > Len(PREVIEW_SUFFIX)
    /\ SubSeq(key, Len(key) - Len(PREVIEW_SUFFIX) + 1, Len(key)) = PREVIEW_SUFFIX

\* C15: between operations a File row exists if and only if an object
\* exists in the object store at its storageKey: no row without its bytes
\* and no primary object without a row, also when storage or database
\* calls fail.
C15_RowIffObject ==
    /\ \A f \in files : f.storageKey \in StorageKeys(store)
    /\ \A o \in store :
          ~IsPreviewKey(o.key) => \E f \in files : f.storageKey = o.key

\* C16: Create share succeeds only if the target File exists, is owned by
\* the requester and is not soft-deleted at the time of the check;
\* otherwise it fails with 404 and no Share row is created.
C16_CreateShareRequiresLiveOwnedFile ==
    [][last'.op = "createShare" =>
        LET data == last'.data
            eligible == \E f \in files : /\ f.id = data.fileId
                                         /\ f.ownerId = data.userId
                                         /\ ~f.isDeleted
        IN  /\ last'.res.status = 201 =>
                  /\ eligible
                  /\ \E s \in shares' \ shares :
                        /\ shares' = shares \cup {s}
                        /\ s.fileId = data.fileId
                        /\ s.createdById = data.userId
            /\ ~eligible =>
                  /\ last'.res = Err(404, "File not found")
                  /\ shares' = shares]_vars

\* the owner was just refused a share on a file that sits in the trash
C16_Witness ==
    /\ last.op = "createShare"
    /\ last.res.status = 404
    /\ \E f \in files : /\ f.id = last.data.fileId
                         /\ f.ownerId = last.data.userId
                         /\ f.isDeleted

\* C17: immediately after a successful Create the share is active and
\* unexpired: isActive = true and expiresAt is later than the creation
\* time, whether expiresAt was defaulted or supplied by the caller.
C17_CreatedActiveUnexpired ==
    (last.op = "createShare" /\ last.res.status = 201)
    => /\ last.res.share.isActive
       /\ last.res.share.expiresAt > last.res.share.createdAt
       /\ \E s \in shares : /\ s.id = last.res.share.id
                              /\ s.isActive
                              /\ s.expiresAt > now

\* C18: the sweep clears isActive on every share that is active and has
\* expiresAt in the past, returns their number, deletes no Share row and
\* leaves every other share, and every field other than isActive,
\* unchanged.
C18_SweepFlagsExpiredOnly ==
    [][last'.op = "cleanupExpiredShares" =>
        /\ Cardinality(shares') = Cardinality(shares)
        /\ \A s \in shares :
              \E s2 \in shares' :
                  /\ s2 = [s EXCEPT !.isActive = s2.isActive]
                  /\ s2.isActive = (s.isActive /\ ~(s.expiresAt < now))
        /\ last'.res.count =
              Cardinality({s \in shares : s.isActive /\ s.expiresAt < now})
        /\ UNCHANGED <<files, store, now>>]_vars

\* the sweep just flagged one expired share and left an unexpired one
\* active
C18_Witness ==
    /\ last.op = "cleanupExpiredShares"
    /\ last.res.count = 1
    /\ \E s \in shares : ~s.isActive /\ s.expiresAt < now /\ s.id \notin revoked
    /\ \E s \in shares : s.isActive /\ s.expiresAt > now

\* C19: the sweep is idempotent: a second run with no operation and no
\* clock advance in between changes no row and returns count 0, and the
\* state after two runs equals the state after one.
C19_SweepIdempotent ==
    [][last'.op = "cleanupExpiredShares" =>
        /\ cleanupExpiredShares(shares', now').count = 0
        /\ cleanupExpiredShares(shares', now').shares = shares'
        /\ last.op = "cleanupExpiredShares" =>
              /\ last'.res.count = 0
              /\ shares' = shares
              /\ UNCHANGED <<files, store, now>>]_vars

\* the sweep was just run twice in a row, the first run having flagged a
\* share
C19_Witness ==
    /\ last.op = "cleanupExpiredShares"
    /\ last.previousCount >= 1
    /\ last.res.count = 0
    /\ \E s \in shares : ~s.isActive /\ s.expiresAt < now /\ s.id \notin revoked

\* C20: after the cleanup routine completes, no File row remains that is
\* soft-deleted with deletedAt older than TRASH_PURGE_DAYS days.
C20_CleanupPurgesOldTrash ==
    last.op = "cleanup" =>
        \A f \in files :
            ~(f.isDeleted /\ f.deletedAt < now - TRASH_PURGE_DAYS * MsPerDay)

\* C21: Deactivate by a user who did not create the share fails with 404
\* and leaves the share's isActive and every other field unchanged.
C21_DeactivateOwnerOnly ==
    [][(/\ last'.op = "deactivateShare"
        /\ \E s \in shares : s.id = last'.shareId /\ s.createdById # last'.userId)
       => /\ last'.res = Err(404, "Share not found")
          /\ shares' = shares
          /\ revoked' = revoked]_vars

\* a user who did not create it was just refused the deactivation of an
\* active share, which is still active
C21_Witness ==
    /\ last.op = "deactivateShare"
    /\ last.res.status = 404
    /\ \E s \in shares : /\ s.id = last.shareId
                          /\ s.createdById # last.userId
                          /\ s.isActive

\* C22: for every error with status 500, and every error without a
\* statusCode, the message of the error envelope is the generic one
\* whenever NODE_ENV is anything other than 'development', unset included.
C22_RedactedOutsideDevelopment ==
    (/\ last.op \in {"uploadFile", "errorHandler"}
     /\ "nodeEnv" \in DOMAIN last
     /\ last.failed
     /\ last.error.status \in {500, NoStatusCode}
     /\ last.nodeEnv # "development")
    => last.res = Err(500, "Internal server error")

\* C23: an upload request whose `tags` multipart field holds a JSON array
\* of strings (the other fields being valid) is not rejected with 400 or
\* 500, and the File it creates has exactly that array as its tags.
C23_JsonTagsAccepted ==
    (/\ last.op = "postUpload"
     /\ last.body.tags.kind = "string"
     /\ JsonParse(last.body.tags.text).kind = "array"
     /\ last.body.name.kind = "string" => last.body.name.text # <<>>)
    => /\ last.res.status \in {201, 409}
       /\ last.res.status = 201 =>
             last.res.file.tags = JsonParse(last.body.tags.text).items

NoCallInFlight == \A slot \in DOMAIN calls : calls[slot].op = "idle"

SoleRowOfKey(f) == \A g \in files : g.storageKey = f.storageKey => g = f

ObjectsPresent(f) ==
    /\ f.storageKey \in StorageKeys(store)
    /\ f.previewKey # NullStr => f.previewKey \in StorageKeys(store)

\* C24: once a restoreFile and a permanentlyDeleteFiles that ran concurrently
\* on the same trashed file have both returned, the file's row is either
\* gone or live with its primary object and its preview object still in
\* the bucket: a live row never refers to deleted bytes.
C24_LiveFileKeepsBytes ==
    NoCallInFlight =>
        \A f \in files : (~f.isDeleted /\ SoleRowOfKey(f)) => ObjectsPresent(f)

\* C25: an upload whose primary object write fails is answered with an
\* error and leaves the set of File rows as it was; an upload that creates
\* a File row has written the row's primary object.
C25_RowOnlyAfterWrite ==
    [][last'.op = "uploadFile" =>
        LET data == last'.data
            storageKey == storageKeyOf(data.userId, data, nextFile + 1)
            attempted == fileExists(store, storageKey, last'.env.headError) # "true"
        IN  /\ (attempted /\ last'.env.putFails) =>
                    /\ last'.res.status = 500
                    /\ files' = files
            /\ files' # files =>
                    /\ ~last'.env.putFails
                    /\ storageKey \in StorageKeys(store')
      ]_vars

C25_Witness ==
    /\ last.op = "uploadFile"
    /\ last.env.putFails
    /\ last.res.status = 500
    /\ files # {}
    /\ storageKeyOf(last.data.userId, last.data, nextFile + 1) \notin StorageKeys(store)

RowInState(fileId, userId, deleted) ==
    \E f \in files : f.id = fileId /\ f.ownerId = userId /\ f.isDeleted = deleted

\* C26: a deleteFile call that completes on a row that is already
\* soft-deleted, and a restoreFile call that completes on a row that is not
\* soft-deleted, answer 404 and leave the File rows as they were, whatever
\* other deleteFile and restoreFile calls are in flight on the same file.
C26_WrongStateIsNotFound ==
    [][ /\ (/\ last'.op = "deleteFile"
            /\ last'.res.status # InProgress.status
            /\ RowInState(last'.fileId, last'.userId, TRUE))
           => (last'.res.status = 404 /\ files' = files)
        /\ (/\ last'.op = "restoreFile"
            /\ last'.res.status # InProgress.status
            /\ RowInState(last'.fileId, last'.userId, FALSE))
           => (last'.res.status = 404 /\ files' = files)
      ]_vars

\* C27: in every reachable state no two File rows have the same storageKey,
\* also after two uploads of one owner that resolve to the same category
\* and final name have run concurrently.
C27_StorageKeyUnique ==
    \A f \in files, g \in files : f.storageKey = g.storageKey => f.id = g.id

OwnerWrites == {"deleteFile", "restoreFile", "hideDeletedFiles", "permanentlyDeleteFiles"}

BulkWrites == {"hideDeletedFiles", "permanentlyDeleteFiles"}

\* C28: a deleteFile, restoreFile, hideDeletedFiles or permanentlyDeleteFiles
\* call made for one user leaves every File row of every other user in
\* place and unchanged, keeps the objects those rows refer to, and a bulk
\* call counts no more rows than the requested ids that belong to its user.
C28_OwnerIsolation ==
    [][last'.op \in OwnerWrites =>
        LET foreign == {f \in files : f.ownerId # last'.userId}
            own == {f \in files : f.ownerId = last'.userId}
        IN  /\ foreign \subseteq files'
            /\ \A f \in foreign, o \in store :
                   o.key \in {f.storageKey, f.previewKey} => o \in store'
            /\ (last'.op \in BulkWrites /\ last'.res.status = 200) =>
                   last'.res.count <= Cardinality({f \in own : f.id \in last'.fileIds})
      ]_vars

C28_Witness ==
    /\ last.op = "permanentlyDeleteFiles"
    /\ last.res.status = 200
    /\ last.res.count = 1
    /\ Cardinality(last.fileIds) = 2
    /\ \E f \in files : /\ f.ownerId # last.userId
                         /\ f.id \in last.fileIds
                         /\ f.isDeleted
                         /\ f.storageKey \in StorageKeys(store)

\* C29: an upload leaves the primary object of every existing File row as
\* it was, and a permanent delete leaves the primary object of every File
\* row it does not remove as it was: no primary write, preview write or
\* preview deletion replaces or removes the object at another row's
\* storageKey.
C29_OtherObjectsUntouched ==
    [][last'.op \in {"uploadFile", "permanentlyDeleteFiles"} =>
        \A f \in files \cap files', o \in store :
            o.key = f.storageKey => o \in store'
      ]_vars

\* C30: in every reachable state no File row that is not soft-deleted has
\* the folder '__hidden_trash'; only soft-deleted rows carry it.
C30_SentinelOnlyInTrash ==
    \A f \in files : f.folder = HIDDEN_TRASH => f.isDeleted
====
